---- MODULE Spec2Model ----
(***************************************************************************)
(* The incremental batch pipeline of marctabog/batch-pipeline:             *)
(* discover_inputs -> plan_delta -> build_requests -> submit_batches ->    *)
(* poll_batches -> merge_responses, as a state machine over the files the  *)
(* stages read and write and over the remote batch service.                *)
(*                                                                         *)
(* A CSV table is a sequence of rows.  No stage ever writes a table with   *)
(* no rows (every writer returns first), so the empty sequence stands for  *)
(* "the file does not exist".                                              *)
(***************************************************************************)
EXTENDS Naturals, Sequences, FiniteSets

VARIABLES
    \* ---- durable artifacts and the remote service
    s3_keys,          \* keys of big_markdown.md objects in the blob store
    site_index,       \* inputs/site_index.csv
    bi_table,         \* tables/business_intelligence.csv
    dead_letter,      \* tables/dead_letter.csv
    todo,             \* inputs/todo.csv
    request_files,    \* requests/batch_NNNN.jsonl, indexed by NNNN
    batch_files,      \* manifests/batch_files.csv of the last build
    failed_log,       \* logs/failed_downloads.txt
    manifest,         \* manifests/batch_jobs.csv
    response_files,   \* responses/batch_NNNN.jsonl: filename -> response records
    remote,           \* the batch service's jobs, indexed by batch id
    \* ---- the operator's position in a full pipeline run, and the config
    stage,
    batch_size,       \* config['batch']['batch_size']
    \* ---- what the last plan / build / submit saw and did (history)
    plan_catalog, plan_results, plan_delta,
    built_requests,
    fetches,          \* what download_markdown returned for each to-do row
    run_clean,        \* no fetch and no submission failed since the last plan
    run_accepted,     \* batch ids accepted since the last plan
    \* ---- the submit_batches process
    s_pc, s_files, s_idx, s_manifest_df, submitted_files, new_batches,
    s_calls,          \* remote calls made by this invocation
    s_start,          \* the manifest on disk when this invocation started
    \* ---- the poll_batches process
    p_pc, p_once, manifest_df, p_idx, updated, poll_cycle,
    last_dl,          \* the download the last row step performed, if any
    \* ---- the merge_responses process
    merge_rc,         \* how the last merge_responses process ended
    \* ---- calls of truncate_markdown
    markdown_content, max_tokens,
    truncated,        \* the values returned for these arguments so far
    \* ---- a call of parse_extraction_output
    text,
    parsed,           \* <<>> before the call, then <<the dict returned>>
    \* ---- discover_inputs over keys in full
    d_keys,           \* the objects of the blob store, by position in AllKeys
    d_catalogs        \* what each discover_sites call so far returned

vars == <<s3_keys, site_index, bi_table, dead_letter, todo, request_files,
          batch_files, failed_log, manifest, response_files, remote,
          stage, batch_size,
          plan_catalog, plan_results, plan_delta, built_requests, fetches,
          run_clean, run_accepted,
          s_pc, s_files, s_idx, s_manifest_df, submitted_files, new_batches,
          s_calls, s_start,
          p_pc, p_once, manifest_df, p_idx, updated, poll_cycle, last_dl,
          merge_rc, markdown_content, max_tokens, truncated, text, parsed,
          d_keys, d_catalogs>>

diskVars   == <<s3_keys, site_index, bi_table, dead_letter, todo, request_files,
                batch_files, failed_log, manifest, response_files, remote>>
histVars   == <<plan_catalog, plan_results, plan_delta, built_requests,
                fetches, run_clean, run_accepted>>
submitVars == <<s_pc, s_files, s_idx, s_manifest_df, submitted_files,
                new_batches, s_calls, s_start>>
pollVars   == <<p_pc, p_once, manifest_df, p_idx, updated, poll_cycle, last_dl>>
boundVars  == <<markdown_content, max_tokens, truncated>>
parseVars  == <<text, parsed>>
discVars   == <<d_keys, d_catalogs>>

----------------------------------------------------------------------------
(* Bounds of the model *)

NItems       == 2    \* work items (custom ids) 1..NItems
MaxBatchSize == 2    \* batch_size ranges over 1..MaxBatchSize
MaxLen       == 3    \* longest catalog of the plan specification
NIds         == 3    \* custom ids 1..NIds of the plan specification
MaxUnits     == 2    \* unit files in the submission specification
MaxJobs      == 2    \* manifest rows in the reconciliation specification
MaxCycles    == 2    \* poll cycles of one poll_batches process

Items == 1..NItems

NULL == 0            \* None / NaN in a table cell; every id is >= 1

----------------------------------------------------------------------------
(* Helpers *)

Range(s) == {s[i] : i \in DOMAIN s}

Ids(rows) == {rows[i].custom_id : i \in DOMAIN rows}

SeqsUpTo(S, n) == UNION {[1..m -> S] : m \in 0..n}

RECURSIVE Flatten(_)
Flatten(ss) == IF ss = <<>> THEN <<>> ELSE Head(ss) \o Flatten(Tail(ss))

Min(a, b) == IF a <= b THEN a ELSE b

\* The members of a set of naturals in ascending order (sorted(...), and the
\* order in which list_objects_v2 returns keys).
RECURSIVE Sorted(_)
Sorted(S) ==
    IF S = {} THEN <<>>
    ELSE LET m == CHOOSE x \in S : \A y \in S : x <= y
         IN <<m>> \o Sorted(S \ {m})

----------------------------------------------------------------------------
(* discover_inputs.py *)

\* discover_sites: one row per key, in listing order.  The keys of this
\* specification decompose to pairwise distinct custom ids.
discover_sites(keys) ==
    LET ks == Sorted(keys)
    IN [i \in 1..Len(ks) |-> [custom_id |-> ks[i], s3_key |-> ks[i]]]

\* main: the crawl may have added objects since the last run; site_index.csv
\* is written unless nothing was found.
Discover ==
    /\ stage = "discover"
    /\ \E ks \in SUBSET Items :
          /\ s3_keys \subseteq ks
          /\ s3_keys' = ks
          /\ LET sites == discover_sites(ks)
             IN site_index' = IF sites = <<>> THEN site_index ELSE sites
    /\ stage' = "plan"
    /\ UNCHANGED <<bi_table, dead_letter, todo, request_files, batch_files,
                   failed_log, manifest, response_files, remote, batch_size>>
    /\ UNCHANGED <<histVars, submitVars, pollVars>>
    /\ UNCHANGED <<merge_rc, boundVars, parseVars, discVars>>

----------------------------------------------------------------------------
(* discover_inputs.py: keys in full *)

\* A key is the sequence of its "/"-separated parts and a part a sequence
\* of tokens: "deal_", digits, "_", and other characters.
IsDigit(c) == c \in {"1", "2"}

\* The length of the run of digits of `part` that starts at position i.
RECURSIVE DigitRun(_, _)
DigitRun(part, i) ==
    IF i <= Len(part) /\ IsDigit(part[i]) THEN 1 + DigitRun(part, i + 1) ELSE 0

NoParse == [ok |-> FALSE, deal_id |-> <<>>, domain |-> <<>>, timestamp |-> <<>>]

\* parse_s3_path: parts[2] must match deal_(\d+)_(.+) and parts[3] is the
\* timestamp, whatever the depth of the key beyond five parts.
parse_s3_path(s3_key) ==
    IF Len(s3_key) < 5 THEN NoParse
    ELSE LET deal_domain == s3_key[3]
             n == DigitRun(deal_domain, 2)
         IN IF /\ Len(deal_domain) >= n + 3
               /\ deal_domain[1] = "deal_"
               /\ n >= 1
               /\ deal_domain[n + 2] = "_"
            THEN [ok |-> TRUE,
                  deal_id |-> SubSeq(deal_domain, 2, n + 1),
                  domain |-> SubSeq(deal_domain, n + 3, Len(deal_domain)),
                  timestamp |-> s3_key[4]]
            ELSE NoParse

\* f"deal_{deal_id}__{domain}__{timestamp}"
CustomId(deal_id, domain, timestamp) ==
    <<"deal_">> \o deal_id \o <<"__">> \o domain \o <<"__">> \o timestamp

\* key.endswith('big_markdown.md')
IsMarkdown(s3_key) ==
    LET last == s3_key[Len(s3_key)]
    IN last # <<>> /\ last[Len(last)] = "big_markdown.md"

SiteRow(s3_key, p) ==
    [custom_id |-> CustomId(p.deal_id, p.domain, p.timestamp),
     deal_id |-> p.deal_id, domain |-> p.domain,
     url |-> <<"http://">> \o p.domain,
     s3_key |-> s3_key, timestamp |-> p.timestamp]

\* The listing loop giving up at the first key it cannot decompose.
RECURSIVE SitesOf_stops(_)
SitesOf_stops(listing) ==
    IF listing = <<>> THEN <<>>
    ELSE LET key == Head(listing)
             p   == parse_s3_path(key)
         IN IF ~IsMarkdown(key) THEN SitesOf_stops(Tail(listing))
            ELSE IF ~p.ok THEN <<>>
            ELSE <<SiteRow(key, p)>> \o SitesOf_stops(Tail(listing))

\* discover_sites without a limit: the loop over the listed objects.
RECURSIVE SitesOf(_)
SitesOf(listing) ==
    IF listing = <<>> THEN <<>>
    ELSE LET key == Head(listing)
             p   == parse_s3_path(key)
         IN IF ~IsMarkdown(key) \/ ~p.ok THEN SitesOf(Tail(listing))
            ELSE <<SiteRow(key, p)>> \o SitesOf(Tail(listing))

\* The keys of the model's blob store, in the order the store lists them.
AllKeys ==
    <<  <<<<"c">>, <<"deal_", "1", "_", "a">>, <<"t1">>, <<"big_markdown.md">>>>,
        <<<<"c">>, <<"p">>, <<"a">>, <<"t1">>, <<"big_markdown.md">>>>,
        <<<<"c">>, <<"p">>, <<"deal_", "1", "2", "_", "a", "_", "b">>, <<"t1">>,
          <<"big_markdown.md">>>>,
        <<<<"c">>, <<"p">>, <<"deal_", "1", "_", "a">>, <<"t1">>,
          <<"big_markdown.md">>>>,
        <<<<"c">>, <<"p">>, <<"deal_", "1", "_", "a">>, <<"t1">>,
          <<"other.md">>>>,
        <<<<"c">>, <<"p">>, <<"deal_", "1", "_", "a">>, <<"t1">>, <<"x">>,
          <<"big_markdown.md">>>>,
        <<<<"c">>, <<"p">>, <<"deal_", "1", "_", "a">>, <<"t2">>,
          <<"big_markdown.md">>>>,
        <<<<"c">>, <<"p">>, <<"deal_", "1", "a">>, <<"t1">>,
          <<"big_markdown.md">>>>,
        <<<<"c">>, <<"p">>, <<"deal_", "2", "_">>, <<"t1">>,
          <<"big_markdown.md">>>>,
        <<<<"c">>, <<"p">>, <<"deal_", "2", "_", "a">>, <<"t1">>,
          <<"big_markdown.md">>>>,
        <<<<"c">>, <<"p">>, <<"deal_", "_", "a">>, <<"t1">>,
          <<"big_markdown.md">>>>  >>

\* The paginated listing of the store's objects.
Listing(keys) == LET ks == Sorted(keys) IN [i \in DOMAIN ks |-> AllKeys[ks[i]]]

MaxRuns == 2         \* runs of discover_inputs over the same store

\* main over keys in full: site_index.csv is written unless nothing was
\* found.
DiscoverKeys ==
    /\ Len(d_catalogs) < MaxRuns
    /\ LET sites == SitesOf(Listing(d_keys))
       IN /\ d_catalogs' = Append(d_catalogs, sites)
          /\ site_index' = IF sites = <<>> THEN site_index ELSE sites
    /\ UNCHANGED d_keys
    /\ UNCHANGED <<s3_keys, bi_table, dead_letter, todo, request_files,
                   batch_files, failed_log, manifest, response_files, remote>>
    /\ UNCHANGED <<stage, batch_size, histVars, submitVars, pollVars>>
    /\ UNCHANGED <<merge_rc, boundVars, parseVars>>

----------------------------------------------------------------------------
(* plan_delta.py *)

compute_delta_negated(site_index_df, existing_results) ==
    IF existing_results = <<>> THEN site_index_df
    ELSE LET processed_ids == Ids(existing_results)
         IN SelectSeq(site_index_df, LAMBDA row : row.custom_id \in processed_ids)

compute_delta(site_index_df, existing_results) ==
    IF existing_results = <<>> THEN site_index_df
    ELSE LET processed_ids == Ids(existing_results)
         IN SelectSeq(site_index_df, LAMBDA row : row.custom_id \notin processed_ids)

\* main: returns when site_index.csv is missing; todo.csv is written only
\* when the delta is not empty.
Plan ==
    /\ stage = "plan"
    /\ IF site_index = <<>>
       THEN UNCHANGED <<todo, plan_catalog, plan_results, plan_delta,
                        run_clean, run_accepted>>
       ELSE LET delta == compute_delta(site_index, bi_table)
            IN /\ todo' = IF delta = <<>> THEN todo ELSE delta
               /\ plan_catalog' = site_index
               /\ plan_results' = bi_table
               /\ plan_delta' = delta
               /\ run_clean' = TRUE
               /\ run_accepted' = {}
    /\ stage' = "build"
    /\ UNCHANGED <<s3_keys, site_index, bi_table, dead_letter, request_files,
                   batch_files, failed_log, manifest, response_files, remote,
                   batch_size, built_requests, fetches>>
    /\ UNCHANGED <<submitVars, pollVars>>
    /\ UNCHANGED <<merge_rc, boundVars, parseVars, discVars>>

----------------------------------------------------------------------------
(* build_requests.py *)

\* What get_object does for one key: it raises, or it returns a body that is
\* empty or not.
FetchOutcomes == {"error", "empty", "content"}

\* download_markdown: the decoded body, or None when anything was raised.
download_markdown(outcome) ==
    [none |-> outcome = "error",
     body |-> IF outcome = "content" THEN <<"m">> ELSE <<>>]

\* Python's `not markdown`: None and the empty string are both false.
NotMarkdown(markdown) == markdown.none \/ markdown.body = <<>>

\* build_requests: one request per to-do row for which download_markdown
\* returned something true, in to-do order; the other rows go to the failed
\* list.  fetched[i] is the outcome of the fetch for row i.  A request is
\* represented by its custom_id.
build_requests(todo_df, fetched) ==
    LET kept == {i \in DOMAIN todo_df :
                    ~NotMarkdown(download_markdown(fetched[i]))}
        idx  == Sorted(kept)
    IN [requests |-> [n \in 1..Len(idx) |-> todo_df[idx[n]].custom_id],
        failed   |-> LET bad == Sorted(DOMAIN todo_df \ kept)
                     IN [n \in 1..Len(bad) |-> todo_df[bad[n]].custom_id]]

write_batches_short(requests, k) ==
    LET starts == {i \in 0..(Len(requests) - 1) : i % k = 0}
    IN [batch_num \in 1..Cardinality(starts) |->
           LET i == (batch_num - 1) * k
           IN SubSeq(requests, i + 1, Min(i + k, Len(requests)) - 1)]

\* write_batches: for i in range(0, len(requests), batch_size), file
\* batch_{i // batch_size + 1} holds requests[i : i + batch_size].
write_batches(requests, k) ==
    LET starts == {i \in 0..(Len(requests) - 1) : i % k = 0}
    IN [batch_num \in 1..Cardinality(starts) |->
           LET i == (batch_num - 1) * k
           IN SubSeq(requests, i + 1, Min(i + k, Len(requests)))]

\* The requests directory after the units were written: a file of the same
\* name is overwritten, every other file stays.
WriteUnits(dir, units) ==
    [n \in 1..(IF Len(units) > Len(dir) THEN Len(units) ELSE Len(dir)) |->
        IF n <= Len(units) THEN units[n] ELSE dir[n]]

\* main: returns when todo.csv is missing or no request could be built.
Build ==
    /\ stage = "build"
    /\ IF todo = <<>>
       THEN UNCHANGED <<request_files, batch_files, failed_log,
                        built_requests, fetches, run_clean>>
       ELSE \E fetched \in [DOMAIN todo -> FetchOutcomes] :
              LET b     == build_requests(todo, fetched)
                  units == write_batches(b.requests, batch_size)
              IN /\ failed_log' = IF b.failed = <<>> THEN failed_log ELSE b.failed
                 /\ run_clean' = (run_clean /\ b.failed = <<>>)
                 /\ fetches' = fetched
                 /\ IF b.requests = <<>>
                    THEN UNCHANGED <<request_files, batch_files, built_requests>>
                    ELSE /\ request_files' = WriteUnits(request_files, units)
                         /\ batch_files' =
                               [n \in 1..Len(units) |->
                                   [filename |-> n, count |-> Len(units[n])]]
                         /\ built_requests' = b.requests
    /\ stage' = "submit"
    /\ UNCHANGED <<s3_keys, site_index, bi_table, dead_letter, todo, manifest,
                   response_files, remote, batch_size>>
    /\ UNCHANGED <<plan_catalog, plan_results, plan_delta, run_accepted>>
    /\ UNCHANGED <<submitVars, pollVars>>
    /\ UNCHANGED <<merge_rc, boundVars, parseVars, discVars>>

----------------------------------------------------------------------------
(* build_requests.py: truncate_markdown *)

\* A text is a sequence of characters.
IsSpace(c) == c \in {" ", "\n"}

\* str.split(): the maximal runs of non-whitespace characters.
RECURSIVE SplitFrom(_, _, _)
SplitFrom(chars, word, words) ==
    IF chars = <<>>
    THEN IF word = <<>> THEN words ELSE Append(words, word)
    ELSE IF IsSpace(Head(chars))
         THEN SplitFrom(Tail(chars), <<>>,
                        IF word = <<>> THEN words ELSE Append(words, word))
         ELSE SplitFrom(Tail(chars), Append(word, Head(chars)), words)

Split(chars) == SplitFrom(chars, <<>>, <<>>)

\* ' '.join(words)
RECURSIVE Join(_)
Join(words) ==
    IF words = <<>> THEN <<>>
    ELSE IF Len(words) = 1 THEN Head(words)
    ELSE Head(words) \o <<" ">> \o Join(Tail(words))

TruncationMarker == <<"\n", "\n", "[... content truncated ...]">>

\* truncate_markdown with the word count compared to max_tokens itself.
truncate_markdown_tokens(chars, tokens) ==
    LET words == Split(chars)
        max_words == (tokens * 3) \div 4
    IN IF Len(words) <= tokens THEN chars
       ELSE Join(SubSeq(words, 1, max_words)) \o TruncationMarker

\* int(max_tokens * 0.75) is the floor of 3 * max_tokens / 4.
truncate_markdown(chars, tokens) ==
    LET words == Split(chars)
        max_words == (tokens * 3) \div 4
    IN IF Len(words) <= max_words THEN chars
       ELSE Join(SubSeq(words, 1, max_words)) \o TruncationMarker

MaxCalls == 2        \* calls of truncate_markdown on the same arguments

Truncate ==
    /\ Len(truncated) < MaxCalls
    /\ truncated' = Append(truncated,
                           truncate_markdown(markdown_content, max_tokens))
    /\ UNCHANGED <<markdown_content, max_tokens>>
    /\ UNCHANGED <<diskVars, stage, batch_size, histVars, submitVars, pollVars>>
    /\ UNCHANGED <<merge_rc, parseVars, discVars>>

----------------------------------------------------------------------------
(* submit_batches.py *)

MaxRemote == 4       \* jobs the service accepts in the submission specification

\* What the two remote calls of submit_batch_file can do: both succeed, or
\* files.create or batches.create raises.
SubmitOutcomes == {"ok", "upload_error", "create_error"}

\* A submission that hands back a job without the id of the uploaded file.
submit_batch_file_nofile(rem, unit, outcome) ==
    IF outcome = "ok"
    THEN [ok       |-> TRUE,
          batch_id |-> Len(rem) + 1,
          input_file_id |-> NULL,
          status   |-> "validating",
          remote   |-> Append(rem, [input |-> unit,
                                    status |-> "validating",
                                    output_file_id |-> NULL,
                                    output |-> <<>>])]
    ELSE [ok |-> FALSE, batch_id |-> NULL, input_file_id |-> NULL,
          status |-> "none", remote |-> rem]

\* submit_batch_file: on success the service holds a new job for the
\* uploaded unit and the caller gets its handle; on an exception the caller
\* gets None and no job exists.
submit_batch_file(rem, unit, outcome) ==
    IF outcome = "ok"
    THEN [ok       |-> TRUE,
          batch_id |-> Len(rem) + 1,
          input_file_id |-> Len(rem) + 1,
          status   |-> "validating",
          remote   |-> Append(rem, [input |-> unit,
                                    status |-> "validating",
                                    output_file_id |-> NULL,
                                    output |-> <<>>])]
    ELSE [ok |-> FALSE, batch_id |-> NULL, input_file_id |-> NULL,
          status |-> "none", remote |-> rem]

ManifestRow(filename, result) ==
    [filename       |-> filename,
     batch_id       |-> result.batch_id,
     input_file_id  |-> result.input_file_id,
     status         |-> result.status,
     submitted_at   |-> 1,
     completed_at   |-> NULL,
     output_file_id |-> NULL,
     response_file  |-> NULL]

\* A loop body that submits every file, in the manifest or not.
SubmitOne_noskip(st, dir, filename, outcome) ==
    LET r == submit_batch_file(st.remote, dir[filename], outcome)
    IN [st EXCEPT !.remote = r.remote,
                  !.calls  = @ + 1,
                  !.failed = @ \/ ~r.ok,
                  !.new_batches =
                      IF r.ok THEN Append(@, ManifestRow(filename, r)) ELSE @]

\* A loop body that records a row for a unit even when its submission
\* failed.
SubmitOne_rowonfail(st, dir, filename, outcome) ==
    IF filename \in st.submitted_files
    THEN st
    ELSE LET r == submit_batch_file(st.remote, dir[filename], outcome)
         IN [st EXCEPT !.remote = r.remote,
                       !.calls  = @ + 1,
                       !.failed = @ \/ ~r.ok,
                       !.new_batches = Append(@, ManifestRow(filename, r))]

\* The body of main's loop for one unit file.  st holds the loop's state:
\* submitted_files, new_batches, the service's jobs, and the calls made.
SubmitOne(st, dir, filename, outcome) ==
    IF filename \in st.submitted_files
    THEN st
    ELSE LET r == submit_batch_file(st.remote, dir[filename], outcome)
         IN [st EXCEPT !.remote = r.remote,
                       !.calls  = @ + 1,
                       !.failed = @ \/ ~r.ok,
                       !.new_batches =
                           IF r.ok THEN Append(@, ManifestRow(filename, r)) ELSE @]

\* A manifest write that keeps only the rows of this run.
WriteManifest_replace(df, new) == IF new = <<>> THEN df ELSE new

\* The end of main: the manifest is rewritten once, after the loop, and only
\* when a unit was submitted.
WriteManifest(df, new) == IF new = <<>> THEN df ELSE df \o new

RECURSIVE SubmitLoop(_, _, _, _)
SubmitLoop(st, dir, i, outcomes) ==
    IF i > Len(dir) THEN st
    ELSE SubmitLoop(SubmitOne(st, dir, i, outcomes[i]), dir, i + 1, outcomes)

FilenamesOf(df) == {df[i].filename : i \in DOMAIN df}

\* main, start to end without interruption (the pipeline's submit stage).
Submit ==
    /\ stage = "submit"
    /\ IF request_files = <<>>
       THEN UNCHANGED <<manifest, remote, run_clean, run_accepted>>
       ELSE \E outcomes \in [DOMAIN request_files -> SubmitOutcomes] :
              /\ \A f \in DOMAIN request_files :
                    f \in FilenamesOf(manifest) => outcomes[f] = "ok"
              /\ LET st0 == [submitted_files |-> FilenamesOf(manifest),
                             new_batches |-> <<>>,
                             remote |-> remote,
                             calls |-> 0,
                             failed |-> FALSE]
                     st  == SubmitLoop(st0, request_files, 1, outcomes)
                 IN /\ manifest' = WriteManifest(manifest, st.new_batches)
                    /\ remote' = st.remote
                    /\ run_clean' = (run_clean /\ ~st.failed)
                    /\ run_accepted' = run_accepted \cup
                                         ((Len(remote) + 1)..Len(st.remote))
    /\ stage' = "poll"
    /\ UNCHANGED <<s3_keys, site_index, bi_table, dead_letter, todo,
                   request_files, batch_files, failed_log, response_files,
                   batch_size>>
    /\ UNCHANGED <<plan_catalog, plan_results, plan_delta, built_requests,
                   fetches>>
    /\ UNCHANGED <<submitVars, pollVars>>
    /\ UNCHANGED <<merge_rc, boundVars, parseVars, discVars>>

\* ---- the same stage, one step at a time, with the process killed anywhere

\* main up to the loop: glob the unit files, load the manifest.
SubmitStart ==
    /\ s_pc \in {"idle", "done", "killed"}
    /\ s_calls' = 0
    /\ s_start' = manifest
    /\ new_batches' = <<>>
    /\ s_idx' = 1
    /\ IF request_files = <<>>
       THEN /\ s_pc' = "done"
            /\ UNCHANGED <<s_files, s_manifest_df, submitted_files>>
       ELSE /\ s_pc' = "loop"
            /\ s_files' = Sorted(DOMAIN request_files)
            /\ s_manifest_df' = manifest
            /\ submitted_files' = FilenamesOf(manifest)
    /\ UNCHANGED <<diskVars, stage, batch_size, histVars, pollVars>>
    /\ UNCHANGED <<merge_rc, boundVars, parseVars, discVars>>

\* One iteration of the loop.
SubmitStep ==
    /\ s_pc = "loop"
    /\ s_idx <= Len(s_files)
    /\ \E outcome \in SubmitOutcomes :
          /\ outcome = "ok" => Len(remote) < MaxRemote
          /\ LET st0 == [submitted_files |-> submitted_files,
                         new_batches |-> new_batches,
                         remote |-> remote,
                         calls |-> s_calls,
                         failed |-> FALSE]
                 st  == SubmitOne(st0, request_files, s_files[s_idx], outcome)
             IN /\ new_batches' = st.new_batches
                /\ remote' = st.remote
                /\ s_calls' = st.calls
    /\ s_idx' = s_idx + 1
    /\ UNCHANGED <<s3_keys, site_index, bi_table, dead_letter, todo,
                   request_files, batch_files, failed_log, manifest,
                   response_files>>
    /\ UNCHANGED <<s_pc, s_files, s_manifest_df, submitted_files, s_start>>
    /\ UNCHANGED <<stage, batch_size, histVars, pollVars>>
    /\ UNCHANGED <<merge_rc, boundVars, parseVars, discVars>>

\* After the loop: write the manifest.
SubmitFinish ==
    /\ s_pc = "loop"
    /\ s_idx > Len(s_files)
    /\ manifest' = WriteManifest(s_manifest_df, new_batches)
    /\ s_pc' = "done"
    /\ UNCHANGED <<s3_keys, site_index, bi_table, dead_letter, todo,
                   request_files, batch_files, failed_log, response_files,
                   remote>>
    /\ UNCHANGED <<s_files, s_idx, s_manifest_df, submitted_files,
                   new_batches, s_calls, s_start>>
    /\ UNCHANGED <<stage, batch_size, histVars, pollVars>>
    /\ UNCHANGED <<merge_rc, boundVars, parseVars, discVars>>

\* The process is killed inside the loop: what it held in memory is gone.
SubmitInterrupt ==
    /\ s_pc = "loop"
    /\ s_pc' = "killed"
    /\ new_batches' = <<>>
    /\ UNCHANGED <<s_files, s_idx, s_manifest_df, submitted_files, s_calls,
                   s_start>>
    /\ UNCHANGED <<diskVars, stage, batch_size, histVars, pollVars>>
    /\ UNCHANGED <<merge_rc, boundVars, parseVars, discVars>>

----------------------------------------------------------------------------
(* The batch service *)

\* A job's status moves on by itself; completed, failed, expired and
\* cancelled are final.
NextStatus(status) ==
    CASE status = "validating"  -> {"in_progress", "failed", "cancelled"}
      [] status = "in_progress" -> {"completed", "expired", "cancelled"}
      [] OTHER                  -> {}

\* The output file of a completed job: one response record per request, with
\* the request's custom_id and an HTTP-style status code.
AnswerText ==
    <<[label |-> "scrape_status", value |-> <<"success">>],
      [label |-> "error_code", value |-> <<"null">>],
      [label |-> "sectorial niche/s", value |-> <<"x">>]>>

OutputOf(input, codes) ==
    [i \in DOMAIN input |->
        [kind |-> "record", custom_id |-> input[i], status_code |-> codes[i],
         choices |-> codes[i] = 200,
         content |-> IF codes[i] = 200 THEN AnswerText ELSE <<>>]]

\* Only the reconciliation stage observes the service, so its progress is
\* interleaved with that stage alone.
RemoteAdvance ==
    /\ stage = "poll"
    /\ \E j \in DOMAIN remote :
       \E s \in NextStatus(remote[j].status) :
          IF s = "completed"
          THEN \E has_output \in BOOLEAN :
               \E codes \in [DOMAIN remote[j].input -> {200, 500}] :
                  /\ ~has_output => \A i \in DOMAIN codes : codes[i] = 500
                  /\ remote' = [remote EXCEPT
                        ![j].status = s,
                        ![j].output_file_id = IF has_output THEN j ELSE NULL,
                        ![j].output = IF has_output
                                      THEN OutputOf(remote[j].input, codes)
                                      ELSE <<>>]
          ELSE remote' = [remote EXCEPT ![j].status = s]
    /\ UNCHANGED <<s3_keys, site_index, bi_table, dead_letter, todo,
                   request_files, batch_files, failed_log, manifest,
                   response_files>>
    /\ UNCHANGED <<stage, batch_size, histVars, submitVars, pollVars>>
    /\ UNCHANGED <<merge_rc, boundVars, parseVars, discVars>>

----------------------------------------------------------------------------
(* poll_batches.py *)

\* What one iteration of the cycle's loop did: whether it queried the
\* service, the status the row had before (prev) and the status and output
\* handle the service returned (seen, handle), whether download_batch_output
\* was called, and the file it wrote with whether that file existed before.
NoDl == [file |-> NULL, existed |-> FALSE, queried |-> FALSE, prev |-> "none",
         seen |-> "none", handle |-> NULL, attempted |-> FALSE]

\* check_batch_status: the job as the service reports it, or None when the
\* call raises.
check_batch_status(rem, batch_id, reachable) ==
    IF reachable
    THEN [ok |-> TRUE, status |-> rem[batch_id].status,
          output_file_id |-> rem[batch_id].output_file_id]
    ELSE [ok |-> FALSE, status |-> "none", output_file_id |-> NULL]

\* The responses directory after download_batch_output wrote `content`.
PutFile(files, filename, content) ==
    [f \in DOMAIN files \cup {filename} |->
        IF f = filename THEN content ELSE files[f]]

\* The guard in front of download_batch_output.
NeedsDownload(row, files) ==
    row.response_file = NULL \/ row.filename \notin DOMAIN files

\* The loop body with the three fields set whether or not the download
\* returned True.
PollRow_eager(st, idx, rem, reachable, dl_ok) ==
    LET row  == st.df[idx]
        st0  == [st EXCEPT !.last_dl = NoDl]
        q    == [NoDl EXCEPT !.queried = TRUE, !.prev = row.status]
    IN IF row.status = "completed" /\ row.response_file # NULL
       THEN st0
       ELSE LET batch == check_batch_status(rem, row.batch_id, reachable)
            IN IF ~batch.ok
               THEN [st0 EXCEPT !.last_dl = q]
               ELSE LET st1 == [st0 EXCEPT
                                  !.df[idx].status = batch.status,
                                  !.last_dl = [q EXCEPT
                                      !.seen = batch.status,
                                      !.handle = batch.output_file_id]]
                    IN IF batch.status = "completed" /\ batch.output_file_id # NULL
                       THEN IF NeedsDownload(row, st.files)
                            THEN [st1 EXCEPT
                                    !.df[idx].completed_at = 1,
                                    !.df[idx].output_file_id = batch.output_file_id,
                                    !.df[idx].response_file = row.filename,
                                    !.files = IF dl_ok
                                              THEN PutFile(@, row.filename,
                                                           rem[row.batch_id].output)
                                              ELSE @,
                                    !.updated = TRUE,
                                    !.last_dl.attempted = TRUE,
                                    !.last_dl.file =
                                        IF dl_ok THEN row.filename ELSE NULL,
                                    !.last_dl.existed =
                                        dl_ok /\ row.filename \in DOMAIN st.files]
                            ELSE st1
                       ELSE IF batch.status = "failed"
                            THEN [st1 EXCEPT !.updated = TRUE]
                            ELSE st1

\* The loop body with a failed status query recorded as a failed job.
PollRow_queryfails(st, idx, rem, reachable, dl_ok) ==
    LET row  == st.df[idx]
        st0  == [st EXCEPT !.last_dl = NoDl]
        q    == [NoDl EXCEPT !.queried = TRUE, !.prev = row.status]
    IN IF row.status = "completed" /\ row.response_file # NULL
       THEN st0
       ELSE LET batch == check_batch_status(rem, row.batch_id, reachable)
            IN IF ~batch.ok
               THEN [st0 EXCEPT !.df[idx].status = "failed",
                                !.updated = TRUE,
                                !.last_dl = q]
               ELSE LET st1 == [st0 EXCEPT
                                  !.df[idx].status = batch.status,
                                  !.last_dl = [q EXCEPT
                                      !.seen = batch.status,
                                      !.handle = batch.output_file_id]]
                    IN IF batch.status = "completed" /\ batch.output_file_id # NULL
                       THEN IF ~NeedsDownload(row, st.files)
                            THEN st1
                            ELSE IF dl_ok
                            THEN [st1 EXCEPT
                                    !.df[idx].completed_at = 1,
                                    !.df[idx].output_file_id = batch.output_file_id,
                                    !.df[idx].response_file = row.filename,
                                    !.files = PutFile(@, row.filename,
                                                      rem[row.batch_id].output),
                                    !.updated = TRUE,
                                    !.last_dl.attempted = TRUE,
                                    !.last_dl.file = row.filename,
                                    !.last_dl.existed =
                                        row.filename \in DOMAIN st.files]
                            ELSE [st1 EXCEPT !.last_dl.attempted = TRUE]
                       ELSE IF batch.status = "failed"
                            THEN [st1 EXCEPT !.updated = TRUE]
                            ELSE st1

\* The body of the cycle's loop for manifest row idx.  st holds manifest_df,
\* the responses directory, `updated`, and what this step did.
PollRow(st, idx, rem, reachable, dl_ok) ==
    LET row  == st.df[idx]
        st0  == [st EXCEPT !.last_dl = NoDl]
        q    == [NoDl EXCEPT !.queried = TRUE, !.prev = row.status]
    IN IF row.status = "completed" /\ row.response_file # NULL
       THEN st0
       ELSE LET batch == check_batch_status(rem, row.batch_id, reachable)
            IN IF ~batch.ok
               THEN [st0 EXCEPT !.last_dl = q]
               ELSE LET st1 == [st0 EXCEPT
                                  !.df[idx].status = batch.status,
                                  !.last_dl = [q EXCEPT
                                      !.seen = batch.status,
                                      !.handle = batch.output_file_id]]
                    IN IF batch.status = "completed" /\ batch.output_file_id # NULL
                       THEN IF ~NeedsDownload(row, st.files)
                            THEN st1
                            ELSE IF dl_ok
                            THEN [st1 EXCEPT
                                    !.df[idx].completed_at = 1,
                                    !.df[idx].output_file_id = batch.output_file_id,
                                    !.df[idx].response_file = row.filename,
                                    !.files = PutFile(@, row.filename,
                                                      rem[row.batch_id].output),
                                    !.updated = TRUE,
                                    !.last_dl.attempted = TRUE,
                                    !.last_dl.file = row.filename,
                                    !.last_dl.existed =
                                        row.filename \in DOMAIN st.files]
                            ELSE [st1 EXCEPT !.last_dl.attempted = TRUE]
                       ELSE IF batch.status = "failed"
                            THEN [st1 EXCEPT !.updated = TRUE]
                            ELSE st1

RECURSIVE PollCycle(_, _, _, _, _)
PollCycle(st, idx, rem, reach, dl) ==
    IF idx > Len(st.df) THEN st
    ELSE PollCycle(PollRow(st, idx, rem, reach[idx], dl[idx]),
                   idx + 1, rem, reach, dl)

\* The manifest on disk after the cycle: saved only if `updated`.
SaveManifest(disk, df, upd) == IF upd THEN df ELSE disk

Pending(df) ==
    {i \in DOMAIN df : df[i].status \notin {"completed", "failed", "cancelled"}}

\* The end of the while loop's body with the --once test dropped.
AfterCycle_loops(df, once) ==
    IF Pending(df) = {} THEN "done_all" ELSE "sleeping"

\* The end of the while loop's body: leave when nothing is pending, leave
\* under --once, sleep otherwise.
AfterCycle(df, once) ==
    IF Pending(df) = {} THEN "done_all"
    ELSE IF once THEN "done_once"
    ELSE "sleeping"

\* main --once, start to end without interruption (the pipeline's
\* reconcile stage).
Poll ==
    /\ stage = "poll"
    /\ IF manifest = <<>>
       THEN UNCHANGED <<manifest, response_files>>
       ELSE \E reach \in [DOMAIN manifest -> BOOLEAN] :
            \E dl \in [DOMAIN manifest -> BOOLEAN] :
              LET st0 == [df |-> manifest, files |-> response_files,
                          updated |-> FALSE, last_dl |-> NoDl]
                  st  == PollCycle(st0, 1, remote, reach, dl)
              IN /\ manifest' = SaveManifest(manifest, st.df, st.updated)
                 /\ response_files' = st.files
    /\ stage' = "merge"
    /\ UNCHANGED <<s3_keys, site_index, bi_table, dead_letter, todo,
                   request_files, batch_files, failed_log, remote, batch_size>>
    /\ UNCHANGED <<histVars, submitVars, pollVars>>
    /\ UNCHANGED <<merge_rc, boundVars, parseVars, discVars>>

\* ---- the same stage, one step at a time, with the process killed anywhere

\* main up to the while loop: parse the arguments, load the manifest.
PollStart ==
    /\ p_pc \in {"idle", "no_manifest", "done_all", "done_once", "killed"}
    /\ \E once \in BOOLEAN : p_once' = once
    /\ poll_cycle' = 0
    /\ updated' = FALSE
    /\ p_idx' = 1
    /\ last_dl' = NoDl
    /\ IF manifest = <<>>
       THEN p_pc' = "no_manifest" /\ UNCHANGED manifest_df
       ELSE p_pc' = "top" /\ manifest_df' = manifest
    /\ UNCHANGED <<diskVars, stage, batch_size, histVars, submitVars>>
    /\ UNCHANGED <<merge_rc, boundVars, parseVars, discVars>>

\* The top of the while loop (reached at entry and after the sleep).
BeginCycle ==
    /\ p_pc \in {"top", "sleeping"}
    /\ poll_cycle < MaxCycles
    /\ poll_cycle' = poll_cycle + 1
    /\ updated' = FALSE
    /\ p_idx' = 1
    /\ p_pc' = "rows"
    /\ last_dl' = NoDl
    /\ UNCHANGED <<p_once, manifest_df>>
    /\ UNCHANGED <<diskVars, stage, batch_size, histVars, submitVars>>
    /\ UNCHANGED <<merge_rc, boundVars, parseVars, discVars>>

\* One iteration of the for loop over the manifest's rows.
PollRowStep ==
    /\ p_pc = "rows"
    /\ p_idx <= Len(manifest_df)
    /\ \E reachable \in BOOLEAN :
       \E dl_ok \in BOOLEAN :
          LET st0 == [df |-> manifest_df, files |-> response_files,
                      updated |-> updated, last_dl |-> NoDl]
              st  == PollRow(st0, p_idx, remote, reachable, dl_ok)
          IN /\ manifest_df' = st.df
             /\ response_files' = st.files
             /\ updated' = st.updated
             /\ last_dl' = st.last_dl
    /\ p_idx' = p_idx + 1
    /\ UNCHANGED <<p_pc, p_once, poll_cycle>>
    /\ UNCHANGED <<s3_keys, site_index, bi_table, dead_letter, todo,
                   request_files, batch_files, failed_log, manifest, remote>>
    /\ UNCHANGED <<stage, batch_size, histVars, submitVars>>
    /\ UNCHANGED <<merge_rc, boundVars, parseVars, discVars>>

\* After the for loop: save the manifest, then leave or sleep.
EndCycle ==
    /\ p_pc = "rows"
    /\ p_idx > Len(manifest_df)
    /\ manifest' = SaveManifest(manifest, manifest_df, updated)
    /\ p_pc' = AfterCycle(manifest_df, p_once)
    /\ last_dl' = NoDl
    /\ UNCHANGED <<p_once, manifest_df, p_idx, updated, poll_cycle>>
    /\ UNCHANGED <<s3_keys, site_index, bi_table, dead_letter, todo,
                   request_files, batch_files, failed_log, response_files,
                   remote>>
    /\ UNCHANGED <<stage, batch_size, histVars, submitVars>>
    /\ UNCHANGED <<merge_rc, boundVars, parseVars, discVars>>

\* The process is killed inside the loop: what it held in memory is gone.
PollInterrupt ==
    /\ p_pc \in {"top", "rows", "sleeping"}
    /\ p_pc' = "killed"
    /\ manifest_df' = <<>>
    /\ updated' = FALSE
    /\ p_idx' = 1
    /\ poll_cycle' = 0
    /\ last_dl' = NoDl
    /\ UNCHANGED p_once
    /\ UNCHANGED <<diskVars, stage, batch_size, histVars, submitVars>>
    /\ UNCHANGED <<merge_rc, boundVars, parseVars, discVars>>

----------------------------------------------------------------------------
(* merge_responses.py: parse_extraction_output *)

\* The text of a model answer is a sequence of lines "label: value"; a value
\* is the sequence of the pieces that commas and semicolons separate, empty
\* when nothing follows the label on its line.  The two headers have their
\* value on their own line, and it is a word.
Fields == <<"sectorial_niches", "end_markets", "product_offerings",
            "service_offerings", "core_activities">>

field_patterns ==
    [sectorial_niches  |-> "sectorial niche/s",
     end_markets       |-> "end markets",
     product_offerings |-> "product offerings",
     service_offerings |-> "service offerings",
     core_activities   |-> "core activities"]

\* str.lower() on the words of the model.
Lower(w) ==
    CASE w = "Error" -> "error"
      [] w = "Null"  -> "null"
      [] OTHER       -> w

\* v.strip() on the pieces of the model.
Strip(v) == IF v = " " THEN "" ELSE v

\* v.strip('"').strip("'") on the pieces of the model.
StripQuotes(v) == IF v = "''" THEN "" ELSE v

\* re.search: the first line the pattern matches, 0 when none does.
FirstOf(S) == IF S = {} THEN 0 ELSE CHOOSE i \in S : \A j \in S : i <= j

StatusMatches(line) ==
    line.label = "scrape_status" /\ Lower(line.value[1]) \in {"success", "error"}

ErrorMatches(line) == line.label = "error_code"

\* [v.strip().strip('"').strip("'") for v in re.split(...) if v.strip()]
SplitValues(value) ==
    LET kept == SelectSeq(value, LAMBDA v : Strip(v) # "")
    IN [i \in DOMAIN kept |-> StripQuotes(Strip(kept[i]))]

\* What ([^\n]+) captures after "label:\s*" on line i.  The \s* also
\* runs over line ends, so when nothing follows the label on its own line
\* the capture is the whole next line: its first piece then starts with
\* that line's label (the label stands for this piece).
Captured(t, i) ==
    IF t[i].value # <<>> THEN t[i].value
    ELSE IF t[i + 1].value = <<>> THEN <<t[i + 1].label>>
    ELSE <<t[i + 1].label>> \o Tail(t[i + 1].value)

\* The list extracted for one field, [] when the pattern matches nowhere:
\* the label is not in the text, or ends it.
FieldValues(t, field) ==
    LET m == FirstOf({i \in DOMAIN t :
                        /\ t[i].label = field_patterns[field]
                        /\ (t[i].value # <<>> \/ i < Len(t))})
    IN IF m = 0 THEN <<>> ELSE SplitValues(Captured(t, m))

\* The end of parse_extraction_output, with a success that extracted
\* nothing turned into an error.
MarkSuccess_downgrades(r) ==
    IF \E f \in {"sectorial_niches", "product_offerings",
                 "service_offerings", "core_activities"} : r[f] # <<>>
    THEN [r EXCEPT !.scrape_status = "success", !.error_code = <<>>]
    ELSE IF r.end_markets = <<>>
         THEN [r EXCEPT !.scrape_status = "error",
                        !.error_code = <<"parse_error">>]
         ELSE r

\* "If we got data, mark as success": end_markets is not among the fields
\* tested.
MarkSuccess(r) ==
    IF \E f \in {"sectorial_niches", "product_offerings",
                 "service_offerings", "core_activities"} : r[f] # <<>>
    THEN [r EXCEPT !.scrape_status = "success", !.error_code = <<>>]
    ELSE r

\* error_code is <<>> for None and <<word>> for a string.
parse_extraction_output(t) ==
    LET status_match == FirstOf({i \in DOMAIN t : StatusMatches(t[i])})
        error_match  == FirstOf({i \in DOMAIN t : ErrorMatches(t[i])})
        scrape_status == IF status_match = 0 THEN "error"
                         ELSE Lower(t[status_match].value[1])
        error_code == IF error_match = 0 THEN <<"parse_error">>
                      ELSE IF Lower(t[error_match].value[1]) = "null" THEN <<>>
                      ELSE <<t[error_match].value[1]>>
        header == [scrape_status |-> scrape_status, error_code |-> error_code,
                   sectorial_niches |-> <<>>, end_markets |-> <<>>,
                   product_offerings |-> <<>>, service_offerings |-> <<>>,
                   core_activities |-> <<>>]
    IN IF scrape_status = "error"
       THEN header
       ELSE MarkSuccess(
               [header EXCEPT
                  !.sectorial_niches  = FieldValues(t, "sectorial_niches"),
                  !.end_markets       = FieldValues(t, "end_markets"),
                  !.product_offerings = FieldValues(t, "product_offerings"),
                  !.service_offerings = FieldValues(t, "service_offerings"),
                  !.core_activities   = FieldValues(t, "core_activities")])

\* One call of parse_extraction_output on `text`.
Parse ==
    /\ parsed = <<>>
    /\ parsed' = <<parse_extraction_output(text)>>
    /\ UNCHANGED text
    /\ UNCHANGED <<diskVars, stage, batch_size, histVars, submitVars, pollVars>>
    /\ UNCHANGED <<merge_rc, boundVars, discVars>>

----------------------------------------------------------------------------
(* merge_responses.py *)

\* A line of a response file is blank, or text that json.loads rejects
\* ("garbage"), or JSON whose envelope is not the expected object, so that a
\* .get() on it raises AttributeError ("malformed"), or a response record.

\* extraction['custom_id'] = custom_id
Extraction(line) ==
    LET e == parse_extraction_output(line.content)
    IN [custom_id |-> line.custom_id,
        scrape_status |-> e.scrape_status, error_code |-> e.error_code,
        sectorial_niches |-> e.sectorial_niches,
        end_markets |-> e.end_markets,
        product_offerings |-> e.product_offerings,
        service_offerings |-> e.service_offerings,
        core_activities |-> e.core_activities]

\* The body of the loop over the lines of a file, for one line.
ProcessLine(acc, line) ==
    IF acc.raised \/ line.kind \in {"blank", "garbage"} THEN acc
    ELSE IF line.kind = "malformed" THEN [acc EXCEPT !.raised = TRUE]
    ELSE IF line.status_code # 200
    THEN [acc EXCEPT !.errors = Append(@,
             [custom_id |-> line.custom_id, error |-> "API error"])]
    ELSE IF ~line.choices
    THEN [acc EXCEPT !.errors = Append(@,
             [custom_id |-> line.custom_id, error |-> "No choices in response"])]
    ELSE [acc EXCEPT !.results = Append(@, Extraction(line))]

RECURSIVE ProcessLines(_, _)
ProcessLines(acc, lines) ==
    IF lines = <<>> THEN acc
    ELSE ProcessLines(ProcessLine(acc, Head(lines)), Tail(lines))

\* process_response_file: (results, errors), or an exception that is not
\* caught.
process_response_file(lines) ==
    ProcessLines([results |-> <<>>, errors |-> <<>>, raised |-> FALSE], lines)

\* merge_all_responses: every file of the responses directory, one after
\* the other.
RECURSIVE MergeFiles(_, _)
MergeFiles(files, names) ==
    IF names = <<>> THEN [results |-> <<>>, errors |-> <<>>, raised |-> FALSE]
    ELSE LET one  == process_response_file(files[Head(names)])
             rest == MergeFiles(files, Tail(names))
         IN [results |-> one.results \o rest.results,
             errors  |-> one.errors \o rest.errors,
             raised  |-> one.raised \/ rest.raised]

merge_all_responses(files) == MergeFiles(files, Sorted(DOMAIN files))

\* A row of business_intelligence.csv; s3_key stands for the catalog's
\* metadata columns.
BiRow(r, meta) ==
    [custom_id |-> r.custom_id, s3_key |-> meta,
     scrape_status |-> r.scrape_status, error_code |-> r.error_code,
     sectorial_niches |-> r.sectorial_niches,
     end_markets |-> r.end_markets,
     product_offerings |-> r.product_offerings,
     service_offerings |-> r.service_offerings,
     core_activities |-> r.core_activities]

\* The join with unmatched results dropped.
RECURSIVE LeftJoin_inner(_, _)
LeftJoin_inner(results, catalog) ==
    IF results = <<>> THEN <<>>
    ELSE LET r == Head(results)
             m == SelectSeq(catalog, LAMBDA c : c.custom_id = r.custom_id)
         IN [i \in DOMAIN m |-> BiRow(r, m[i].s3_key)]
            \o LeftJoin_inner(Tail(results), catalog)

\* results_df.merge(site_index, on='custom_id', how='left'): one row per
\* matching catalog row, or one row with null metadata when none matches.
RECURSIVE LeftJoin(_, _)
LeftJoin(results, catalog) ==
    IF results = <<>> THEN <<>>
    ELSE LET r == Head(results)
             m == SelectSeq(catalog, LAMBDA c : c.custom_id = r.custom_id)
         IN (IF m = <<>>
             THEN <<BiRow(r, NULL)>>
             ELSE [i \in DOMAIN m |-> BiRow(r, m[i].s3_key)])
            \o LeftJoin(Tail(results), catalog)

\* main: nothing is written when no file, or no parsed result, exists, nor
\* when a line or the missing site_index.csv raises.
Merge ==
    /\ stage = "merge"
    /\ LET m == merge_all_responses(response_files)
       IN IF DOMAIN response_files = {}
          THEN merge_rc' = "no_files" /\ UNCHANGED <<bi_table, dead_letter>>
          ELSE IF m.raised
          THEN merge_rc' = "raised" /\ UNCHANGED <<bi_table, dead_letter>>
          ELSE IF m.results = <<>>
          THEN merge_rc' = "no_results" /\ UNCHANGED <<bi_table, dead_letter>>
          ELSE IF site_index = <<>>
          THEN merge_rc' = "raised" /\ UNCHANGED <<bi_table, dead_letter>>
          ELSE /\ merge_rc' = "done"
               /\ bi_table' = LeftJoin(m.results, site_index)
               /\ dead_letter' = IF m.errors = <<>> THEN dead_letter ELSE m.errors
    /\ stage' = "discover"
    /\ UNCHANGED <<s3_keys, site_index, todo, request_files, batch_files,
                   failed_log, manifest, response_files, remote, batch_size>>
    /\ UNCHANGED <<histVars, submitVars, pollVars>>
    /\ UNCHANGED <<boundVars, parseVars, discVars>>

----------------------------------------------------------------------------
(* Specifications *)

NoFiles ==
    /\ s3_keys = {} /\ site_index = <<>> /\ bi_table = <<>>
    /\ dead_letter = <<>> /\ todo = <<>> /\ request_files = <<>>
    /\ batch_files = <<>> /\ failed_log = <<>> /\ manifest = <<>>
    /\ response_files = <<>> /\ remote = <<>>

NoHistory ==
    /\ plan_catalog = <<>> /\ plan_results = <<>> /\ plan_delta = <<>>
    /\ built_requests = <<>> /\ fetches = <<>> /\ run_clean = TRUE /\ run_accepted = {}

SubmitIdle ==
    /\ s_pc = "idle" /\ s_files = <<>> /\ s_idx = 1 /\ s_manifest_df = <<>>
    /\ submitted_files = {} /\ new_batches = <<>> /\ s_calls = 0
    /\ s_start = <<>>

PollIdle ==
    /\ p_pc = "idle" /\ p_once = FALSE /\ manifest_df = <<>> /\ p_idx = 1
    /\ updated = FALSE /\ poll_cycle = 0 /\ last_dl = NoDl

DiscIdle == d_keys = {} /\ d_catalogs = <<>>

MergeIdle == merge_rc = "idle"

BoundIdle == markdown_content = <<>> /\ max_tokens = 0 /\ truncated = <<>>

ParseIdle == text = <<>> /\ parsed = <<>>

\* ---- the pipeline: full runs, every stage start to end, from a machine
\* with no artifact.
Init ==
    /\ NoFiles /\ NoHistory /\ SubmitIdle /\ PollIdle /\ DiscIdle /\ MergeIdle /\ BoundIdle
    /\ ParseIdle
    /\ stage = "discover"
    /\ batch_size \in 1..MaxBatchSize

Next ==
    \/ Discover
    \/ Plan
    \/ Build
    \/ Submit
    \/ RemoteAdvance
    \/ Poll
    \/ Merge

Spec == Init /\ [][Next]_vars

\* ---- plan_delta alone, over every catalog, result table and manifest
CatalogRows(ids) == [i \in DOMAIN ids |-> [custom_id |-> ids[i], s3_key |-> i]]

ResultRows(ids) == [i \in DOMAIN ids |-> [custom_id |-> ids[i], s3_key |-> NULL]]

InitDelta ==
    /\ s3_keys = {} /\ dead_letter = <<>> /\ todo = <<>>
    /\ request_files = <<>> /\ batch_files = <<>> /\ failed_log = <<>>
    /\ response_files = <<>> /\ remote = <<>>
    /\ \E ids \in SeqsUpTo(1..NIds, MaxLen) : site_index = CatalogRows(ids)
    /\ \E ids \in SeqsUpTo(1..NIds, MaxLen - 1) : bi_table = ResultRows(ids)
    /\ manifest \in
          {<<>>,
           <<[ManifestRow(1, [batch_id |-> 1, input_file_id |-> 1,
                              status |-> "completed"])
                EXCEPT !.response_file = 1]>>}
    /\ NoHistory /\ SubmitIdle /\ PollIdle /\ DiscIdle /\ MergeIdle /\ BoundIdle
    /\ ParseIdle
    /\ stage = "plan"
    /\ batch_size = 1

NextDelta == Plan

SpecDelta == InitDelta /\ [][NextDelta]_vars

\* ---- build_requests alone, over every to-do list and capacity
MaxTodo == 5         \* longest to-do list of the build specification
MaxCap  == 3         \* batch_size ranges over 1..MaxCap there

InitPartition ==
    /\ s3_keys = {} /\ site_index = <<>> /\ bi_table = <<>>
    /\ dead_letter = <<>> /\ batch_files = <<>> /\ failed_log = <<>>
    /\ manifest = <<>> /\ response_files = <<>> /\ remote = <<>>
    /\ \E n \in 0..MaxTodo : todo = CatalogRows([i \in 1..n |-> i])
    /\ request_files \in {<<>>, [i \in 1..(MaxTodo + 1) |-> <<MaxTodo + 1>>]}
    /\ NoHistory /\ SubmitIdle /\ PollIdle /\ DiscIdle /\ MergeIdle /\ BoundIdle
    /\ ParseIdle
    /\ stage = "build"
    /\ batch_size \in 1..MaxCap

NextPartition == Build

SpecPartition == InitPartition /\ [][NextPartition]_vars

\* ---- submit_batches alone, one loop iteration at a time
InitSubmit ==
    /\ s3_keys = {} /\ site_index = <<>> /\ bi_table = <<>>
    /\ dead_letter = <<>> /\ todo = <<>> /\ batch_files = <<>>
    /\ failed_log = <<>> /\ manifest = <<>> /\ response_files = <<>>
    /\ remote = <<>>
    /\ \E n \in 1..MaxUnits : request_files = [i \in 1..n |-> <<i>>]
    /\ NoHistory /\ SubmitIdle /\ PollIdle /\ DiscIdle /\ MergeIdle /\ BoundIdle
    /\ ParseIdle
    /\ stage = "submit"
    /\ batch_size = 1

NextSubmit ==
    \/ SubmitStart
    \/ SubmitStep
    \/ SubmitFinish
    \/ SubmitInterrupt

SpecSubmit == InitSubmit /\ [][NextSubmit]_vars

\* ---- submit runs and poll runs in turn, over a requests directory that
\* later builds add unit files to

\* The stages between a poll run and the next submit run, reduced to what
\* the submit run reads: a new run starts, and write_batches may have left
\* one more unit file.
Rebuild ==
    /\ stage = "merge"
    /\ stage' = "submit"
    /\ \/ UNCHANGED request_files
       \/ /\ Len(request_files) < MaxUnits
          /\ request_files' = Append(request_files, <<Len(request_files) + 1>>)
    /\ run_clean' = TRUE
    /\ run_accepted' = {}
    /\ UNCHANGED <<s3_keys, site_index, bi_table, dead_letter, todo,
                   batch_files, failed_log, manifest, response_files, remote,
                   batch_size>>
    /\ UNCHANGED <<plan_catalog, plan_results, plan_delta, built_requests,
                   fetches>>
    /\ UNCHANGED <<submitVars, pollVars>>
    /\ UNCHANGED <<merge_rc, boundVars, parseVars, discVars>>

InitRuns ==
    /\ NoFiles /\ NoHistory /\ SubmitIdle /\ PollIdle /\ DiscIdle /\ MergeIdle
    /\ BoundIdle /\ ParseIdle
    /\ stage = "merge"
    /\ batch_size = 1

NextRuns ==
    \/ Rebuild
    \/ Submit
    \/ RemoteAdvance
    \/ Poll

SpecRuns == InitRuns /\ [][NextRuns]_vars

\* ---- poll_batches alone, one loop iteration at a time, over a manifest
\* of freshly submitted units
InitPoll ==
    /\ s3_keys = {} /\ site_index = <<>> /\ bi_table = <<>>
    /\ dead_letter = <<>> /\ todo = <<>> /\ batch_files = <<>>
    /\ failed_log = <<>> /\ response_files = <<>>
    /\ \E n \in 1..MaxJobs :
          /\ request_files = [i \in 1..n |-> <<i>>]
          /\ remote = [i \in 1..n |->
                         [input |-> <<i>>, status |-> "validating",
                          output_file_id |-> NULL, output |-> <<>>]]
          /\ manifest = [i \in 1..n |->
                           ManifestRow(i, [batch_id |-> i, input_file_id |-> i,
                                           status |-> "validating"])]
    /\ NoHistory /\ SubmitIdle /\ PollIdle /\ DiscIdle /\ MergeIdle /\ BoundIdle
    /\ ParseIdle
    /\ stage = "poll"
    /\ batch_size = 1

NextPoll ==
    \/ PollStart
    \/ BeginCycle
    \/ PollRowStep
    \/ EndCycle
    \/ PollInterrupt
    \/ RemoteAdvance

SpecPoll == InitPoll /\ [][NextPoll]_vars

\* ---- parse_extraction_output alone, over every text of a few lines
MaxLines == 3        \* longest text, in lines, of the parse specification

StatusLines ==
    {[label |-> "scrape_status", value |-> <<w>>] : w \in {"success", "Error", "ok"}}

ErrorLines ==
    {[label |-> "error_code", value |-> <<w>>] : w \in {"null", "Null", "timeout"}}

FieldLines ==
    {[label |-> field_patterns[Fields[i]], value |-> v] :
        i \in DOMAIN Fields, v \in {<<"x">>, <<" ", " ">>, <<"''">>, <<>>}}

OtherLines == {[label |-> "note", value |-> <<"x">>]}

InitParse ==
    /\ NoFiles /\ NoHistory /\ SubmitIdle /\ PollIdle /\ DiscIdle /\ MergeIdle /\ BoundIdle
    /\ stage = "merge"
    /\ batch_size = 1
    /\ text \in SeqsUpTo(StatusLines \cup ErrorLines \cup FieldLines
                         \cup OtherLines, MaxLines)
    /\ parsed = <<>>

NextParse == Parse

SpecParse == InitParse /\ [][NextParse]_vars

\* ---- truncate_markdown alone, over every short text and small limit
MaxText   == 5       \* longest text, in characters
MaxTokens == 3       \* max_tokens ranges over 0..MaxTokens

InitBound ==
    /\ NoFiles /\ NoHistory /\ SubmitIdle /\ PollIdle /\ DiscIdle /\ MergeIdle /\ ParseIdle
    /\ stage = "build"
    /\ batch_size = 1
    /\ markdown_content \in SeqsUpTo({"a", "b", " ", "\n"}, MaxText)
    /\ max_tokens \in 0..MaxTokens
    /\ truncated = <<>>

NextBound == Truncate

SpecBound == InitBound /\ [][NextBound]_vars

\* ---- merge_responses alone, over every small responses directory and
\* every catalog discover_inputs writes
MaxRecords == 2      \* lines in the responses directory, all files together

ErrorText ==
    <<[label |-> "scrape_status", value |-> <<"Error">>],
      [label |-> "error_code", value |-> <<"timeout">>]>>

\* A line that is not a response record.
NoRecord(k) ==
    [kind |-> k, custom_id |-> NULL, status_code |-> NULL, choices |-> FALSE,
     content |-> <<>>]

ResponseLines ==
    {NoRecord(k) : k \in {"blank", "garbage", "malformed"}}
    \cup {[kind |-> "record", custom_id |-> x, status_code |-> 200,
           choices |-> TRUE, content |-> t] :
             x \in Items, t \in {AnswerText, ErrorText}}
    \cup {[kind |-> "record", custom_id |-> x, status_code |-> 200,
           choices |-> FALSE, content |-> <<>>] : x \in Items}
    \cup {[kind |-> "record", custom_id |-> x, status_code |-> 500,
           choices |-> FALSE, content |-> <<>>] : x \in Items}

InitMerge ==
    /\ bi_table = <<>> /\ dead_letter = <<>> /\ todo = <<>>
    /\ request_files = <<>> /\ batch_files = <<>> /\ failed_log = <<>>
    /\ manifest = <<>> /\ remote = <<>>
    /\ \E ks \in SUBSET Items \ {{}} :
          s3_keys = ks /\ site_index = discover_sites(ks)
    /\ \E ls \in SeqsUpTo(ResponseLines, MaxRecords) :
       \E k \in 0..Len(ls) :
          response_files = IF k = Len(ls) THEN <<ls>>
                           ELSE <<SubSeq(ls, 1, k), SubSeq(ls, k + 1, Len(ls))>>
    /\ NoHistory /\ SubmitIdle /\ PollIdle /\ DiscIdle /\ MergeIdle /\ BoundIdle
    /\ ParseIdle
    /\ stage = "merge"
    /\ batch_size = 1

NextMerge == Merge

SpecMerge == InitMerge /\ [][NextMerge]_vars

\* ---- discover_inputs alone, over every small store of keys in full
MaxKeys == 3         \* objects in the blob store

InitDiscover ==
    /\ NoFiles /\ NoHistory /\ SubmitIdle /\ PollIdle /\ MergeIdle /\ BoundIdle
    /\ ParseIdle
    /\ stage = "discover"
    /\ batch_size = 1
    /\ d_keys \in {ks \in SUBSET DOMAIN AllKeys : Cardinality(ks) <= MaxKeys}
    /\ d_catalogs = <<>>

NextDiscover == DiscoverKeys

SpecDiscover == InitDiscover /\ [][NextDiscover]_vars

----------------------------------------------------------------------------
(* Claims *)

\* The catalog positions whose id is absent from the result table.
Kept(C, R) == {i \in DOMAIN C : C[i].custom_id \notin Ids(R)}

\* d lists the rows of C at the positions Kept(C, R), in ascending position.
IsDeltaOf(d, C, R) ==
    /\ Len(d) = Cardinality(Kept(C, R))
    /\ \A n \in 1..Len(d) :
          \E i \in Kept(C, R) :
             /\ Cardinality({j \in Kept(C, R) : j <= i}) = n
             /\ d[n] = C[i]

\* C1: whatever the manifest holds, compute_delta returns exactly the
\* catalog rows whose custom_id is absent from the prior results, in catalog
\* order, and the catalog itself when there are no prior results.
C1_DeltaExact ==
    /\ IsDeltaOf(plan_delta, plan_catalog, plan_results)
    /\ plan_results = <<>> => plan_delta = plan_catalog

C1_Witness ==
    /\ stage = "build"
    /\ manifest # <<>>
    /\ plan_results # <<>>
    /\ plan_delta # <<>>
    /\ Len(plan_delta) < Len(plan_catalog)

\* An item the last plan found outstanding and that is either new or was
\* only ever part of units that failed or whose response for it was not a
\* success: no job accepted before this run can still deliver it.
DeadFor(j, x) ==
    \/ remote[j].status \in {"failed", "expired", "cancelled"}
    \/ /\ remote[j].status = "completed"
       /\ \A i \in DOMAIN remote[j].output :
             remote[j].output[i].custom_id = x
                => remote[j].output[i].status_code # 200

Lost(x) ==
    /\ x \in Ids(plan_catalog) \ Ids(plan_results)
    /\ \A j \in DOMAIN remote \ run_accepted :
          x \in Range(remote[j].input) => DeadFor(j, x)

\* C2: when plan, build and submit have run with every fetch and every
\* submission succeeding, every outstanding item (new, or left without a
\* result by a failed unit or a dead-lettered response) is in a unit the
\* service accepted in this run.
C2_OutstandingSubmitted ==
    (stage = "poll" /\ run_clean) =>
        \A x \in Items :
            Lost(x) => \E j \in run_accepted : x \in Range(remote[j].input)

\* C3: no unit accepted since the last plan contains an item whose id was
\* in the primary result table when that plan ran.
C3_NoResubmission ==
    \A j \in run_accepted :
        Range(remote[j].input) \cap Ids(plan_results) = {}

\* C4: an invocation of the submission stage that starts with a manifest row
\* for every unit file makes no remote call and leaves the manifest as it
\* found it.
C4_CoveredNoSubmission ==
    (s_pc \in {"loop", "done", "killed"}
        /\ DOMAIN request_files \subseteq FilenamesOf(s_start)) =>
        /\ s_calls = 0
        /\ new_batches = <<>>
        /\ manifest = s_start

C4_Witness ==
    /\ s_pc = "done"
    /\ Len(request_files) = MaxUnits
    /\ DOMAIN request_files \subseteq FilenamesOf(s_start)
    /\ Len(manifest) = MaxUnits

AllJobsPersisted ==
    \A j \in DOMAIN remote :
        \E i \in DOMAIN manifest : manifest[i].batch_id = j

\* C5: whenever the submission stage is about to submit a further unit, and
\* whenever it has been killed, every job the service has accepted has a
\* manifest row on disk.
C5_HandlePersistedBeforeNext ==
    (\/ s_pc = "killed"
     \/ /\ s_pc = "loop"
        /\ s_idx <= Len(s_files)
        /\ s_files[s_idx] \notin submitted_files) => AllJobsPersisted

\* C6: the units written by a build are the first files of the requests
\* directory; concatenated in file order they are the request list, every
\* unit but the last holds exactly batch_size requests and the last holds
\* between 1 and batch_size.
C6_PartitionCovers ==
    LET n     == Len(batch_files)
        units == SubSeq(request_files, 1, n)
    IN /\ Flatten(units) = built_requests
       /\ \A b \in 1..n : /\ batch_files[b].filename = b
                          /\ batch_files[b].count = Len(units[b])
       /\ \A b \in 1..(n - 1) : Len(units[b]) = batch_size
       /\ n > 0 => Len(units[n]) \in 1..batch_size

C6_Witness ==
    /\ stage = "submit"
    /\ Len(batch_files) >= 2
    /\ batch_files[Len(batch_files)].count < batch_size
    /\ Len(built_requests) < Len(todo)

\* C7: no download is made into a result file that already exists.
C7_NoRedownload == ~last_dl.existed

TerminalStatuses == {"completed", "failed", "expired", "cancelled"}

\* C8: the continuous loop never goes to sleep after a cycle that left every
\* record in a terminal status.
C8_ExitsWhenAllTerminal ==
    p_pc = "sleeping" =>
        \E i \in DOMAIN manifest_df :
            manifest_df[i].status \notin TerminalStatuses

\* C9: under --once the process never sleeps and never starts a second
\* cycle, and it has made exactly one pass when it returns.
C9_SingleShotOnePass ==
    p_once =>
        /\ p_pc # "sleeping"
        /\ poll_cycle <= 1
        /\ p_pc \in {"done_all", "done_once"} => poll_cycle = 1

C9_Witness ==
    /\ p_once
    /\ p_pc = "done_once"
    /\ poll_cycle = 1
    /\ Pending(manifest_df) # {}

\* C10: no two rows of the primary output table carry the same custom_id.
C10_UniqueItemIds ==
    \A i, j \in DOMAIN bi_table :
        bi_table[i].custom_id = bi_table[j].custom_id => i = j

\* ---- parse_extraction_output

ListsEmpty(r) == \A i \in DOMAIN Fields : r[Fields[i]] = <<>>

NoStatusHeader == \A i \in DOMAIN text : ~StatusMatches(text[i])

DeclaredSuccess ==
    /\ ~NoStatusHeader
    /\ Lower(text[FirstOf({i \in DOMAIN text :
                              StatusMatches(text[i])})].value[1]) = "success"

\* C16: whenever parse returns status error, the five category lists are
\* empty and errorCode is not null, also for a text that declares
\* "scrape_status: error" with "error_code: null".
C16_ErrorHasCode ==
    (parsed # <<>> /\ parsed[1].scrape_status = "error")
        => (ListsEmpty(parsed[1]) /\ parsed[1].error_code # <<>>)

\* C17: whenever parse returns status success, errorCode is null.
C17_SuccessHasNoCode ==
    (parsed # <<>> /\ parsed[1].scrape_status = "success")
        => parsed[1].error_code = <<>>

\* C18: a text with no recognizable status header parses to status error,
\* errorCode "parse_error" and empty category lists.
C18_NoHeaderParseError ==
    (parsed # <<>> /\ NoStatusHeader)
        => /\ parsed[1].scrape_status = "error"
           /\ parsed[1].error_code = <<"parse_error">>
           /\ ListsEmpty(parsed[1])

\* C19: a text whose status header is missing or unparsable but which gives
\* a non-empty value for one of the five category labels parses to status
\* success with that category list populated.
C19_PromotedToSuccess ==
    \A i \in DOMAIN Fields :
        (parsed # <<>> /\ NoStatusHeader /\ FieldValues(text, Fields[i]) # <<>>)
            => /\ parsed[1].scrape_status = "success"
               /\ parsed[1][Fields[i]] = FieldValues(text, Fields[i])

\* C20: a text that declares status success and whose five category lists
\* all end up empty parses to status success.
C20_SuccessNotDowngraded ==
    (parsed # <<>> /\ DeclaredSuccess /\ ListsEmpty(parsed[1]))
        => parsed[1].scrape_status = "success"

C20_Witness ==
    /\ parsed # <<>> /\ DeclaredSuccess /\ ListsEmpty(parsed[1])
    /\ \E k \in DOMAIN text : text[k].label = "end markets"
    /\ parsed[1].scrape_status = "success"

\* ---- truncate_markdown

\* C15: every call of truncate_markdown on the same text and limit n returns
\* the same value and leaves the text alone; the value is the text itself
\* when it has at most 0.75 n words, and otherwise its first int(0.75 n)
\* words, joined by single blanks, followed by the truncation marker.
C15_BoundExact ==
    LET words == Split(markdown_content)
        k     == (3 * max_tokens) \div 4
    IN \A c \in DOMAIN truncated :
          /\ truncated[c] = truncated[1]
          /\ IF 4 * Len(words) <= 3 * max_tokens
             THEN truncated[c] = markdown_content
             ELSE truncated[c] =
                     Join([i \in 1..k |-> words[i]]) \o TruncationMarker

C15_Witness ==
    /\ Len(truncated) = 2
    /\ Len(Split(markdown_content)) = 3
    /\ max_tokens = 3
    /\ truncated[2] # markdown_content

\* ---- merge_responses

\* The merge_responses process has just ended, with this outcome.
MergeEnded(rc) == stage = "discover" /\ merge_rc = rc

DeadLetterKeys == {dead_letter[i].custom_id : i \in DOMAIN dead_letter}

\* The API-level failures in the downloaded artifacts.
ApiFailures ==
    {r \in UNION {Range(response_files[f]) : f \in DOMAIN response_files} :
        r.kind = "record" /\ r.status_code # 200}

\* C11: after a merge, no correlation key of the dead-letter table is an
\* itemId of the primary output table.
C11_DeadLetterDisjoint ==
    MergeEnded("done") => DeadLetterKeys \cap Ids(bi_table) = {}

\* C12: in every downloaded artifact each non-blank line yields exactly one
\* entry, a parsed result for a 200 record with a message and a dead-letter
\* entry for any other line, and no line stops the processing.
C12_OneEntryPerLine ==
    (stage = "discover" /\ merge_rc # "idle") =>
        \A f \in DOMAIN response_files :
            LET lines == response_files[f]
                out   == process_response_file(lines)
                good  == SelectSeq(lines, LAMBDA l :
                            l.kind = "record" /\ l.status_code = 200 /\ l.choices)
                bad   == SelectSeq(lines, LAMBDA l :
                            l.kind # "blank"
                            /\ ~(l.kind = "record" /\ l.status_code = 200
                                 /\ l.choices))
            IN /\ ~out.raised
               /\ Len(out.results) = Len(good)
               /\ Len(out.errors) = Len(bad)

\* C13: after the merge stage ran over artifacts holding API-level failures,
\* the dead-letter table on disk has an entry for each of them, also when no
\* record parsed into a result.
C13_FailuresInDeadLetter ==
    (MergeEnded("done") \/ MergeEnded("no_results"))
        => \A r \in ApiFailures : r.custom_id \in DeadLetterKeys

\* C14: after a merge every parsed result is a row of the primary table; a
\* row whose itemId is in the catalog carries a catalog row's metadata, not
\* null, and a row whose itemId is not in the catalog has null metadata.
C14_LeftJoinMetadata ==
    MergeEnded("done") =>
        LET m == merge_all_responses(response_files)
        IN /\ \A i \in DOMAIN m.results :
                 \E j \in DOMAIN bi_table :
                    /\ bi_table[j].custom_id = m.results[i].custom_id
                    /\ bi_table[j].scrape_status = m.results[i].scrape_status
                    /\ bi_table[j].error_code = m.results[i].error_code
           /\ \A j \in DOMAIN bi_table :
                 IF bi_table[j].custom_id \in Ids(site_index)
                 THEN /\ bi_table[j].s3_key # NULL
                      /\ \E c \in DOMAIN site_index :
                            /\ site_index[c].custom_id = bi_table[j].custom_id
                            /\ site_index[c].s3_key = bi_table[j].s3_key
                 ELSE bi_table[j].s3_key = NULL

C14_Witness ==
    /\ MergeEnded("done")
    /\ \E j \in DOMAIN bi_table : bi_table[j].custom_id \in Ids(site_index)
    /\ \E j \in DOMAIN bi_table : bi_table[j].custom_id \notin Ids(site_index)

\* The list the label's own line gives: its pieces trimmed, the blank ones
\* dropped, the others quote-stripped, in order.
LineValues(field) ==
    LET m == FirstOf({i \in DOMAIN text : text[i].label = field_patterns[field]})
    IN IF m = 0 THEN <<>> ELSE SplitValues(text[m].value)

\* C21: for a text that declares status success, the list returned for each
\* category label is the remainder of that label's line, split on commas and
\* semicolons, trimmed, quote-stripped, without the empty tokens, in order,
\* and it is empty for a label the text does not have.
C21_FieldsFromOwnLine ==
    (parsed # <<>> /\ DeclaredSuccess)
        => \A i \in DOMAIN Fields :
              parsed[1][Fields[i]] = LineValues(Fields[i])

\* ---- discover_inputs

\* The keys of the store that decompose, in listing order.
Decomposable ==
    SelectSeq(Listing(d_keys),
              LAMBDA key : IsMarkdown(key) /\ parse_s3_path(key).ok)

\* C22: every run of discovery over the same keys yields the same catalog;
\* an item's id is determined by its (deal_id, domain, timestamp) alone; a
\* key that does not decompose is skipped and the keys after it are still
\* catalogued.
C22_DiscoveryDeterministic ==
    \A r \in DOMAIN d_catalogs :
        LET sites == d_catalogs[r]
        IN /\ sites = d_catalogs[1]
           /\ Len(sites) = Len(Decomposable)
           /\ \A i \in DOMAIN sites :
                 /\ sites[i].s3_key = Decomposable[i]
                 /\ sites[i].custom_id =
                       CustomId(sites[i].deal_id, sites[i].domain,
                                sites[i].timestamp)
           /\ \A i, j \in DOMAIN sites :
                 (/\ sites[i].deal_id = sites[j].deal_id
                  /\ sites[i].domain = sites[j].domain
                  /\ sites[i].timestamp = sites[j].timestamp)
                    => sites[i].custom_id = sites[j].custom_id

C22_Witness ==
    /\ Len(d_catalogs) = 2
    /\ d_catalogs[2] # <<>>
    /\ \E i, j \in d_keys :
          /\ i < j
          /\ IsMarkdown(AllKeys[i]) /\ ~parse_s3_path(AllKeys[i]).ok
          /\ IsMarkdown(AllKeys[j]) /\ parse_s3_path(AllKeys[j]).ok

\* ---- submit_batches: errors

\* The unit files among the first k that had no manifest row when the
\* invocation started.
Unsubmitted(k) == {i \in 1..k : s_files[i] \notin submitted_files}

C23_RowsAreAccepted ==
    /\ s_pc \in {"loop", "done"} =>
          /\ s_calls = Cardinality(Unsubmitted(s_idx - 1))
          /\ \A n \in DOMAIN new_batches :
                /\ new_batches[n].filename \notin submitted_files
                /\ new_batches[n].batch_id \in DOMAIN remote
                /\ remote[new_batches[n].batch_id].input =
                      request_files[new_batches[n].filename]
    /\ s_pc = "done" => manifest = s_start \o new_batches

C23_StepEffect ==
    (s_pc = "loop" /\ s_calls' = s_calls + 1) =>
        IF remote' = remote
        THEN new_batches' = new_batches /\ s_pc' = "loop"
        ELSE /\ Len(remote') = Len(remote) + 1
             /\ new_batches' # new_batches
             /\ new_batches'[Len(new_batches')].batch_id = Len(remote')

\* C23: a failed submission of one unit adds no manifest row for it and the
\* loop goes on: every unit file without a row is attempted, whatever
\* happened to the units before it, every accepted unit gets its row, and
\* the rows of the accepted units are on disk when the stage ends.
C23_ErrorSkipsUnit == []C23_RowsAreAccepted /\ [][C23_StepEffect]_vars

C23_Witness ==
    /\ s_pc = "done"
    /\ Len(s_files) = 2
    /\ s_start = <<>>
    /\ s_calls = 2
    /\ Len(manifest) = 1
    /\ manifest[1].filename = 2

\* ---- build_requests: fetch failures

\* The custom ids of the to-do rows whose fetch outcome is in S, in to-do
\* order.
IdsWhere(S) ==
    LET idx == Sorted({i \in DOMAIN todo : fetches[i] \in S})
    IN [n \in 1..Len(idx) |-> todo[idx[n]].custom_id]

\* C24: after build_requests ran over a to-do list, the request list holds
\* exactly one request for every row whose fetch did not fail, in to-do
\* order, and the failed list holds exactly the rows whose fetch failed.
C24_FetchedYieldsRequest ==
    (stage = "submit" /\ todo # <<>>) =>
        /\ built_requests = IdsWhere({"empty", "content"})
        /\ failed_log = IdsWhere({"error"})

\* ---- poll_batches: what a cycle queries, downloads and writes

\* C25: no loop iteration queries the service for a row whose recorded
\* status is completed, failed, expired or cancelled.
C25_TerminalNotQueried ==
    ~(last_dl.queried /\ last_dl.prev \in TerminalStatuses)

\* The fields of a row that a download fills in.
Artifact(row) == <<row.response_file, row.output_file_id, row.completed_at>>

C26_AttemptGuarded ==
    last_dl.attempted =>
        /\ last_dl.seen = "completed"
        /\ last_dl.handle # NULL

C26_FieldsStep ==
    (p_pc = "rows" /\ p_pc' = "rows") =>
        \A i \in DOMAIN manifest_df :
            Artifact(manifest_df'[i]) # Artifact(manifest_df[i]) =>
                /\ i = p_idx
                /\ last_dl'.attempted
                /\ last_dl'.file = manifest_df[i].filename
                /\ manifest_df[i].filename \in DOMAIN response_files'
                /\ response_files'[manifest_df[i].filename] =
                      remote[manifest_df[i].batch_id].output
                /\ Artifact(manifest_df'[i]) =
                      <<manifest_df[i].filename, last_dl'.handle, 1>>

\* C26: download_batch_output is called for a row only when the service
\* reported completed with an output handle, and a row's response_file,
\* output_file_id and completed_at change only in an iteration whose download
\* wrote the row's result file.
C26_DownloadGuarded == []C26_AttemptGuarded /\ [][C26_FieldsStep]_vars

C26_Witness ==
    /\ p_pc = "rows"
    /\ p_idx > 1
    /\ last_dl.attempted
    /\ last_dl.file = NULL
    /\ manifest_df[p_idx - 1].status = "completed"
    /\ manifest_df[p_idx - 1].response_file = NULL

\* C27: when the first cycle of a process is about to write the manifest,
\* the manifest in memory differs from the one the process loaded.
C27_WriteOnlyOnChange ==
    (p_pc = "rows" /\ p_idx > Len(manifest_df) /\ poll_cycle = 1 /\ updated)
        => manifest_df # manifest

\* C28: after a cycle has ended, every row for which the service reported
\* failed, expired or cancelled has that status in the manifest on disk.
C28_FailureOnDisk ==
    p_pc \in {"done_all", "done_once", "sleeping"} =>
        \A i \in DOMAIN manifest_df :
            manifest_df[i].status \in {"failed", "expired", "cancelled"} =>
                manifest[i].status = manifest_df[i].status

\* ---- the manifest across runs

\* The fields of a row that identify the unit and its submission.
Identity(row) ==
    <<row.filename, row.batch_id, row.input_file_id, row.submitted_at>>

C29_Step ==
    /\ Len(manifest') >= Len(manifest)
    /\ \A i \in DOMAIN manifest : Identity(manifest'[i]) = Identity(manifest[i])
    /\ stage = "submit" => SubSeq(manifest', 1, Len(manifest)) = manifest
    /\ stage = "poll" => Len(manifest') = Len(manifest)

\* C29: in every step of a sequence of submit and poll runs the manifest
\* keeps all its rows in place with their filename, batch_id, input_file_id
\* and submitted_at; a submit run leaves the existing rows as they were and
\* a poll run adds no row.
C29_AppendOnly == [][C29_Step]_vars

C29_Witness ==
    /\ stage = "poll"
    /\ Len(manifest) = 2
    /\ manifest[1].response_file # NULL
    /\ manifest[2].status = "validating"
    /\ manifest[2].batch_id \in run_accepted

\* C30: across submit runs, one after the other and killed anywhere, the
\* manifest has at most one row per unit file, and every row carries the
\* batch id and input file id of the job the service created for that file.
C30_OneRowPerUnit ==
    /\ \A i, j \in DOMAIN manifest :
          manifest[i].filename = manifest[j].filename => i = j
    /\ \A i \in DOMAIN manifest :
          /\ manifest[i].batch_id # NULL
          /\ manifest[i].input_file_id # NULL
          /\ manifest[i].batch_id \in DOMAIN remote
          /\ manifest[i].input_file_id = manifest[i].batch_id
          /\ remote[manifest[i].batch_id].input =
                request_files[manifest[i].filename]

C30_Witness ==
    /\ s_pc = "done"
    /\ s_start # <<>>
    /\ s_calls = 1
    /\ Len(manifest) = 2
    /\ Len(remote) > 2

\* ---- plan_delta: the to-do table after an empty delta

\* C31: when the plan stage has run over a catalog, the to-do table on disk
\* is the delta of the current catalog and result table, also when that
\* delta is empty.
C31_TodoIsCurrentDelta ==
    (stage = "build" /\ site_index # <<>>) =>
        todo = compute_delta(site_index, bi_table)

\* ---- poll_batches: leaving the loop

\* C32: when the continuous loop has left because no row is pending, every
\* row with status completed whose job has an output handle has its
\* response_file set, its result file in the responses directory, and status
\* completed in the manifest on disk.
C32_CompletedHaveResults ==
    (p_pc = "done_all" /\ ~p_once) =>
        \A i \in DOMAIN manifest_df :
            (/\ manifest_df[i].status = "completed"
             /\ remote[manifest_df[i].batch_id].output_file_id # NULL) =>
                /\ manifest_df[i].response_file # NULL
                /\ manifest_df[i].filename \in DOMAIN response_files
                /\ manifest[i].status = "completed"

\* ---- poll_batches: a status query that fails

\* The iteration just made queried the service and got no answer.
QueryFailed(dl) == dl.queried /\ dl.seen = "none"

C33_FailedQueryStep ==
    (p_pc = "rows" /\ p_pc' = "rows" /\ p_idx' # p_idx /\ QueryFailed(last_dl')) =>
        /\ manifest_df' = manifest_df
        /\ response_files' = response_files
        /\ updated' = updated
        /\ ~last_dl'.attempted
        /\ last_dl'.file = NULL
        /\ p_idx' = p_idx + 1

C33_LoopGoesOn ==
    (p_pc = "rows" /\ p_idx <= Len(manifest_df)) => ENABLED PollRowStep

\* C33: an iteration whose status query fails changes no field of any row,
\* attempts no download and writes no file, and the loop goes on to the
\* next row.
C33_FailedQuerySkipsRow == []C33_LoopGoesOn /\ [][C33_FailedQueryStep]_vars

C33_Witness ==
    /\ p_pc = "rows"
    /\ p_idx = 2
    /\ Len(manifest_df) = 2
    /\ QueryFailed(last_dl)
    /\ remote[manifest_df[1].batch_id].status = "completed"
    /\ remote[manifest_df[1].batch_id].output_file_id # NULL
    /\ manifest_df[1].status = "validating"

====
